---- MODULE Spec2Model ----
(***************************************************************************)
(* Model of pywhisker.py: the ShadowCredentials read / write / remove /    *)
(* flush invocations against a directory, and the decoder of the           *)
(* msDS-KeyCredentialLink DN-Binary value (DN_binary_KeyCredentialLink).   *)
(*                                                                         *)
(* An invocation is one run of main(): it builds one ShadowCredentials     *)
(* object and calls one of its four methods.  Every call to the directory  *)
(* (search, modify) is one step of the invocation.                         *)
(***************************************************************************)
EXTENDS Integers, Sequences, FiniteSets, TLC

(***************************************************************************)
(* Bounds of the model.                                                    *)
(***************************************************************************)
\* longest DACL held by the fetched attribute in the directory model
MaxAces == 2
\* longest DACL handed to the DACL edits on their own
MaxDaclLen == 4
\* most records in a key credential stream handed to the decoder
MaxRecords == 2
\* longest custom key information enumerated byte by byte
MaxCkiLen == 8

Procs == {"p1", "p2"}

None == "None"

(***************************************************************************)
(* The directory: accounts and their SIDs.                                 *)
(***************************************************************************)
SidAlice == "S-1-5-21-1-1104"
SidBob == "S-1-5-21-1-1105"
SidOrphan == "S-1-5-21-1-9999"
Sids == {SidAlice, SidBob, SidOrphan}

\* sAMAccountName -> objectSid of the entries the directory holds
AccountSid == [alice |-> SidAlice, bob |-> SidBob, target |-> "S-1-5-21-1-1000"]
AccountNames == DOMAIN AccountSid
ActorNames == {"alice", "bob", "nobody"}
TargetNames == {"target", "nosuch"}

Actions == {"read", "write", "remove", "flush"}
ResultCodes == {0, 19, 50, 1}

(***************************************************************************)
(* Security descriptors.  An ACE is identified by the canonical string of  *)
(* its SID; AceType tells apart two ACEs of the same SID.                  *)
(***************************************************************************)
AceTypes == {"ALLOWED", "DENIED"}
Aces == [Sid : Sids, AceType : AceTypes]

SeqsUpTo(S, n) == UNION {[1..k -> S] : k \in 0..n}

FetchedOwner == "S-1-5-18"
DefaultOwner == "S-1-5-32-544"

MkSd(owner, group, control, dacl) ==
    [OwnerSid |-> owner, GroupSid |-> group, Control |-> control, Dacl |-> dacl]

\* descriptors the attribute of the target may decode to
FetchedSds == {MkSd(FetchedOwner, FetchedOwner, "SR", d) : d \in SeqsUpTo(Aces, MaxAces)}

DaclSids(dacl) == {dacl[i].Sid : i \in 1..Len(dacl)}

(***************************************************************************)
(* Byte streams.  A byte is a number in 0..255, a stream a sequence of     *)
(* bytes; io.BytesIO.read(n) at a position returns what is left, up to n.  *)
(***************************************************************************)
Min(a, b) == IF a < b THEN a ELSE b

Read(b, pos, n) == SubSeq(b, pos, Min(pos + n - 1, Len(b)))

ReadAll(b, pos) == SubSeq(b, pos, Len(b))

\* struct.unpack of a little-endian unsigned integer of Len(bs) bytes
RECURSIVE UnpackLE(_)
UnpackLE(bs) == IF bs = <<>> THEN 0 ELSE bs[1] + 256 * UnpackLE(Tail(bs))

\* struct.unpack of a big-endian unsigned integer of Len(bs) bytes
RECURSIVE UnpackBE(_)
UnpackBE(bs) ==
    IF bs = <<>> THEN 0 ELSE bs[Len(bs)] + 256 * UnpackBE(SubSeq(bs, 1, Len(bs) - 1))

(***************************************************************************)
(* Enumerations of the key credential link.                                *)
(***************************************************************************)
EntryKeyID == 1
EntryKeyHash == 2
EntryKeyMaterial == 3
EntryKeyUsage == 4
EntryKeySource == 5
EntryDevideId == 6
EntryCustomKeyInformation == 7
EntryKeyApproximateLastLogonTimeStamp == 8
EntryKeyCreationTime == 9

Version0 == 0
Version1 == 256
Version2 == 512

KeySourceAD == 0

(***************************************************************************)
(* Text produced by the decoders: a sequence of one-character strings.     *)
(***************************************************************************)
HexDigit(n) ==
    <<"0", "1", "2", "3", "4", "5", "6", "7", "8", "9", "a", "b", "c", "d", "e", "f">>[n + 1]

\* hex(n)[2:]
RECURSIVE HexOf(_)
HexOf(n) == IF n < 16 THEN <<HexDigit(n)>> ELSE HexOf(n \div 16) \o <<HexDigit(n % 16)>>

\* s.rjust(w, '0')
RECURSIVE RjustZero(_, _)
RjustZero(s, w) == IF Len(s) >= w THEN s ELSE RjustZero(<<"0">> \o s, w)

\* binascii.hexlify(bs).decode()
RECURSIVE Hexlify(_)
Hexlify(bs) ==
    IF bs = <<>> THEN <<>>
    ELSE <<HexDigit(bs[1] \div 16), HexDigit(bs[1] % 16)>> \o Hexlify(Tail(bs))

(***************************************************************************)
(* Results of the decoders: exc is the exception a call raises ("none"     *)
(* when it returns), val what it returns.                                  *)
(***************************************************************************)
Ok(v) == [exc |-> "none", val |-> v]
Raise(e) == [exc |-> e, val |-> None]

\* Guid(data): the five groups joined by "-"
Guid(data) ==
    IF Len(data) < 10 THEN Raise("struct.error")
    ELSE LET a == RjustZero(HexOf(UnpackLE(SubSeq(data, 1, 4))), 4)
             b == RjustZero(HexOf(UnpackLE(SubSeq(data, 5, 6))), 2)
             c == RjustZero(HexOf(UnpackLE(SubSeq(data, 7, 8))), 2)
             d == RjustZero(HexOf(UnpackBE(SubSeq(data, 9, 10))), 2)
             e == RjustZero(Hexlify(SubSeq(data, 11, Min(16, Len(data)))), 6)
         IN  Ok(a \o <<"-">> \o b \o <<"-">> \o c \o <<"-">> \o d \o <<"-">> \o e)

\* a field of CustomKeyInformation that may be None: <<>> when it is None,
\* <<v>> when it holds v
Absent == <<>>
Present(v) == <<v>>

\* one optional one-byte field of CustomKeyInformation, read at pos
OptByte(b, pos) == IF Read(b, pos, 1) = <<>> THEN Absent ELSE Present(Read(b, pos, 1)[1])

\* CustomKeyInformation.__init__: bytes.rjust(10, 'b\x00') is given a str as
\* fill character and raises TypeError whenever Reserved is read
CustomKeyInformation(keyMaterial) ==
    IF Len(keyMaterial) < 2 THEN Raise("struct.error")
    ELSE IF Read(keyMaterial, 7, 10) # <<>> THEN Raise("TypeError")
    ELSE Ok([Version |-> keyMaterial[1],
             Flags |-> keyMaterial[2],
             VolumeType |-> OptByte(keyMaterial, 3),
             SupportsNotification |->
                 IF Read(keyMaterial, 4, 1) = <<>> THEN Absent
                 ELSE Present(Read(keyMaterial, 4, 1)[1] # 0),
             FekKeyVersion |-> OptByte(keyMaterial, 5),
             Strength |-> OptByte(keyMaterial, 6),
             Reserved |-> Absent,
             EncodedExtendedCKI |->
                 IF ReadAll(keyMaterial, 17) = <<>> THEN Absent
                 ELSE Present(ReadAll(keyMaterial, 17))])

(***************************************************************************)
(* binascii.unhexlify and base64.b64decode on a byte string: when they     *)
(* raise.  The decoded identifier is kept as the conversion applied to     *)
(* its argument.                                                           *)
(***************************************************************************)
IsHexChar(c) == (c \in 48..57) \/ (c \in 65..70) \/ (c \in 97..102)

UnhexlifyOk(bs) == Len(bs) % 2 = 0 /\ \A i \in 1..Len(bs) : IsHexChar(bs[i])

IsB64Char(c) == (c \in 48..57) \/ (c \in 65..90) \/ (c \in 97..122) \/ c = 43 \/ c = 47

\* binascii.a2b_base64, not strict: st is <<quad_pos, pads, done>>
RECURSIVE B64Scan(_, _, _)
B64Scan(bs, i, st) ==
    IF i > Len(bs) \/ st[3] THEN st
    ELSE IF bs[i] = 61
         THEN IF st[1] >= 2 /\ st[1] + st[2] + 1 >= 4
              THEN B64Scan(bs, i + 1, <<st[1], st[2] + 1, TRUE>>)
              ELSE B64Scan(bs, i + 1, <<st[1], IF st[1] >= 2 THEN st[2] + 1 ELSE st[2], FALSE>>)
    ELSE IF IsB64Char(bs[i])
         THEN B64Scan(bs, i + 1, <<(st[1] + 1) % 4, 0, FALSE>>)
    ELSE B64Scan(bs, i + 1, st)

B64DecodeOk(bs) == LET st == B64Scan(bs, 1, <<0, 0, FALSE>>) IN st[3] \/ st[1] = 0

ConvertToBinaryIdentifier(keyIdentifier, version) ==
    IF version \in {Version0, Version1}
    THEN IF UnhexlifyOk(keyIdentifier)
         THEN Ok([conv |-> "unhexlify", arg |-> keyIdentifier])
         ELSE Raise("binascii.Error")
    ELSE IF B64DecodeOk(keyIdentifier)
         THEN Ok([conv |-> "b64decode", arg |-> keyIdentifier])
         ELSE Raise("binascii.Error")

(***************************************************************************)
(* ConvertFromBinaryTime: 100 ns ticks since 1601-01-01.  The result is    *)
(* the number of microseconds after that epoch (timedelta rounds half to   *)
(* even); ticks that do not fit 31 bits are either beyond year 9999        *)
(* (OverflowError) or kept as the tick bytes.                              *)
(***************************************************************************)
\* 2650467744000000000 ticks reach datetime.max; most significant byte first
MaxTicksBE == <<36, 200, 90, 94, 209, 192, 64, 0>>

RECURSIVE LexGeq(_, _)
LexGeq(x, y) ==
    IF x = <<>> THEN TRUE
    ELSE IF x[1] # y[1] THEN x[1] > y[1]
    ELSE LexGeq(Tail(x), Tail(y))

Reverse(s) == [i \in 1..Len(s) |-> s[Len(s) + 1 - i]]

RoundHalfEven(ticks) ==
    LET q == ticks \div 10
        r == ticks % 10
    IN  IF r > 5 \/ (r = 5 /\ q % 2 = 1) THEN q + 1 ELSE q

ConvertFromBinaryTime(binaryTime, source, version) ==
    IF Len(binaryTime) # 8 THEN Raise("struct.error")
    ELSE IF LexGeq(Reverse(binaryTime), MaxTicksBE) THEN Raise("OverflowError")
    ELSE LET warned == version \notin {Version0, Version1} /\ source # KeySourceAD
         IN  IF SubSeq(binaryTime, 5, 8) = <<0, 0, 0, 0>> /\ binaryTime[4] < 128
             THEN Ok([epoch |-> 1601,
                      micros |-> RoundHalfEven(UnpackLE(SubSeq(binaryTime, 1, 4))),
                      warned |-> warned])
             ELSE Ok([epoch |-> 1601, ticks |-> binaryTime, warned |-> warned])

(***************************************************************************)
(* bytes.decode('UTF-8'): whether a byte string is well-formed UTF-8.      *)
(***************************************************************************)
IsCont(bs, i) == i <= Len(bs) /\ bs[i] \in 128..191

RECURSIVE Utf8Ok(_, _)
Utf8Ok(bs, i) ==
    IF i > Len(bs) THEN TRUE
    ELSE IF bs[i] < 128 THEN Utf8Ok(bs, i + 1)
    ELSE IF bs[i] \in 194..223 THEN IsCont(bs, i + 1) /\ Utf8Ok(bs, i + 2)
    ELSE IF bs[i] \in 224..239
         THEN /\ IsCont(bs, i + 1) /\ IsCont(bs, i + 2)
              /\ (bs[i] = 224 => bs[i + 1] >= 160)
              /\ (bs[i] = 237 => bs[i + 1] <= 159)
              /\ Utf8Ok(bs, i + 3)
    ELSE IF bs[i] \in 240..244
         THEN /\ IsCont(bs, i + 1) /\ IsCont(bs, i + 2) /\ IsCont(bs, i + 3)
              /\ (bs[i] = 240 => bs[i + 1] >= 144)
              /\ (bs[i] = 244 => bs[i + 1] <= 143)
              /\ Utf8Ok(bs, i + 4)
    ELSE FALSE

(***************************************************************************)
(* DN_binary_KeyCredentialLink.__init__                                    *)
(*                                                                         *)
(* raw_data is the attribute value "B:<n>:<hex>:<dn>".  It is held as      *)
(*   utf8   - whether the bytes decode as UTF-8,                           *)
(*   nparts - the number of fields split(":") yields,                      *)
(*   hexok  - whether field 2 is made of pairs of hex digits,              *)
(*   binary - the bytes field 2 is the hex text of.                        *)
(***************************************************************************)
\* first loop: cut the stream after the version into rows
RECURSIVE ReadEntries(_, _)
ReadEntries(b, pos) ==
    LET read_data == Read(b, pos, 3) IN
    IF read_data = <<>> THEN Ok(<<>>)
    ELSE IF Len(read_data) # 3 THEN Raise("struct.error")
    ELSE LET length == read_data[1] + 256 * read_data[2]
             value == Read(b, pos + 3, length)
             rest == ReadEntries(b, pos + 3 + Len(value))
         IN  IF rest.exc # "none" THEN rest
             ELSE Ok(<<[entryType |-> read_data[3], value |-> value]>> \o rest.val)

\* parsed_data[key] = v
Put(st, key, r) ==
    IF r.exc # "none" THEN [st EXCEPT !.exc = r.exc]
    ELSE [st EXCEPT !.parsed = (key :> r.val) @@ st.parsed]

\* one turn of the second loop; self.source (st.source) is not set, <<>>,
\* until a KeySource row is parsed
ParseRow(st, row, version) ==
    CASE row.entryType = EntryKeyID ->
           Put(st, "KeyID", ConvertToBinaryIdentifier(row.value, version))
      [] row.entryType = EntryKeyHash -> st
      [] row.entryType = EntryKeyMaterial -> Put(st, "KeyMaterial", Ok(row.value))
      [] row.entryType = EntryKeyUsage ->
           IF Len(row.value) = 1 THEN Put(st, "Usage", Ok(row.value[1]))
           ELSE IF Utf8Ok(row.value, 1) THEN Put(st, "LegacyUsage", Ok(row.value))
           ELSE [st EXCEPT !.exc = "UnicodeDecodeError"]
      [] row.entryType = EntryKeySource ->
           IF row.value = <<>> THEN [st EXCEPT !.exc = "IndexError"]
           ELSE [Put(st, "KeySource", Ok(row.value[1])) EXCEPT !.source = <<row.value[1]>>]
      [] row.entryType = EntryDevideId -> Put(st, "DevideId", Guid(row.value))
      [] row.entryType = EntryCustomKeyInformation ->
           Put(st, "CustomKeyInfo", CustomKeyInformation(row.value))
      [] row.entryType = EntryKeyApproximateLastLogonTimeStamp ->
           IF st.source = <<>> THEN [st EXCEPT !.exc = "AttributeError"]
           ELSE Put(st, "KeyApproximateLastLogonTimeStamp",
                    ConvertFromBinaryTime(row.value, st.source[1], version))
      [] row.entryType = EntryKeyCreationTime ->
           IF st.source = <<>> THEN [st EXCEPT !.exc = "AttributeError"]
           ELSE Put(st, "KeyCreationTime",
                    ConvertFromBinaryTime(row.value, st.source[1], version))
      [] OTHER -> st

RECURSIVE ParseRows(_, _, _, _)
ParseRows(st, rows, i, version) ==
    IF i > Len(rows) \/ st.exc # "none" THEN st
    ELSE ParseRows(ParseRow(st, rows[i], version), rows, i + 1, version)

\* the stream part of __init__ (lines 196-240) on the bytes of field 2
DecodeStream(binary_data) ==
    IF Len(Read(binary_data, 1, 4)) # 4 THEN Raise("struct.error")
    ELSE LET version == UnpackLE(Read(binary_data, 1, 4))
             data == ReadEntries(binary_data, 5)
         IN  IF data.exc # "none" THEN Raise(data.exc)
             ELSE LET st == ParseRows([exc |-> "none", source |-> <<>>,
                                       parsed |-> ("version" :> version)],
                                      data.val, 1, version)
                  IN  IF st.exc # "none" THEN Raise(st.exc)
                      ELSE Ok([version |-> version, rows |-> data.val,
                               parsed_data |-> st.parsed])

DN_binary_KeyCredentialLink(raw_data) ==
    IF ~raw_data.utf8 THEN Raise("UnicodeDecodeError")
    ELSE IF raw_data.nparts < 3 THEN Raise("IndexError")
    ELSE IF ~raw_data.hexok THEN Raise("binascii.Error")
    ELSE IF raw_data.nparts < 4 THEN Raise("IndexError")
    ELSE DecodeStream(raw_data.binary)

(***************************************************************************)
(* State.                                                                  *)
(*   kclAttr      msDS-KeyCredentialLink of the target entry: its list of  *)
(*                values, <<>> when absent.  A value is [raw, sdparse]:    *)
(*                raw as DN_binary_KeyCredentialLink reads it, sdparse     *)
(*                what SR_SECURITY_DESCRIPTOR makes of the same bytes (a   *)
(*                descriptor, or the exception)                            *)
(*   rbcdAttr     msDS-AllowedToActOnBehalfOfOtherIdentity of the target:  *)
(*                its list of values, <<>> when absent                     *)
(*   lastAccepted the last modify the directory accepted, or None          *)
(*   run          per process, the invocation it runs                      *)
(*   kclInput, kclResult   a byte stream handed to the decoder, its result *)
(*   aclInput, aclResult   a DACL and a SID handed to the DACL edits       *)
(***************************************************************************)
VARIABLES kclAttr, rbcdAttr, lastAccepted, run, kclInput, kclResult, aclInput, aclResult

vars == <<kclAttr, rbcdAttr, lastAccepted, run, kclInput, kclResult, aclInput, aclResult>>

dirVars == <<kclAttr, rbcdAttr, lastAccepted, run>>
kclVars == <<kclInput, kclResult>>
aclVars == <<aclInput, aclResult>>

(***************************************************************************)
(* Directory lookups.                                                      *)
(***************************************************************************)
\* what a lookup returns: False, or the pair (dn, second)
NotFound == [found |-> FALSE, dn |-> None, second |-> None]
Found(dn, second) == [found |-> TRUE, dn |-> dn, second |-> second]

\* get_user_info with the not-found case lost: every search yields an entry
get_user_info_Mut(samname) ==
    IF samname \in AccountNames THEN Found("CN=" \o samname, AccountSid[samname])
    ELSE Found("CN=" \o samname, SidOrphan)

\* get_user_info(samname): (dn, sid), or False when the search finds nothing
get_user_info(samname) ==
    IF samname \in AccountNames THEN Found("CN=" \o samname, AccountSid[samname]) ELSE NotFound

\* get_sid_info(sid): (dn, samname), or False when the search finds nothing
get_sid_info(sid) ==
    IF \E n \in AccountNames : AccountSid[n] = sid
    THEN LET n == CHOOSE n \in AccountNames : AccountSid[n] = sid IN Found("CN=" \o n, n)
    ELSE NotFound

(***************************************************************************)
(* Descriptor helpers.                                                     *)
(***************************************************************************)
\* no descriptor held
NoSd == MkSd(None, None, None, <<>>)

\* create_empty_sd(): a descriptor with default owner and an empty DACL
create_empty_sd == MkSd(DefaultOwner, None, "SR", <<>>)

\* create_allow_ace(sid): an access-allowed ACE for sid
create_allow_ace(sid) == [Sid |-> sid, AceType |-> "ALLOWED"]

\* sd.getData(): the self-relative bytes of a descriptor
getData(sd) == [encoded |-> sd]

\* SR_SECURITY_DESCRIPTOR(data = raw value)
SR_SECURITY_DESCRIPTOR(attr) == attr.sdparse

\* addActor with the membership test lost: the ACE is always appended
addActor_Mut(sd, sid) == [sd EXCEPT !.Dacl = Append(sd.Dacl, create_allow_ace(sid))]

\* write, lines 473-474: append an ACE unless the SID is already listed
addActor(sd, sid) ==
    IF sid \notin {sd.Dacl[i].Sid : i \in 1..Len(sd.Dacl)}
    THEN [sd EXCEPT !.Dacl = Append(sd.Dacl, create_allow_ace(sid))]
    ELSE sd

\* FilterAces that stops at the first ACE it drops
RECURSIVE FilterAces_Mut(_, _)
FilterAces_Mut(aces, sid) ==
    IF aces = <<>> THEN <<>>
    ELSE IF sid # Head(aces).Sid THEN <<Head(aces)>> \o FilterAces_Mut(Tail(aces), sid)
    ELSE Tail(aces)

\* remove, line 518: keep the ACEs whose SID differs
RECURSIVE FilterAces(_, _)
FilterAces(aces, sid) ==
    IF aces = <<>> THEN <<>>
    ELSE IF sid # Head(aces).Sid THEN <<Head(aces)>> \o FilterAces(Tail(aces), sid)
    ELSE FilterAces(Tail(aces), sid)

removeActor(sd, sid) == [sd EXCEPT !.Dacl = FilterAces(sd.Dacl, sid)]

\* flushValues that writes the descriptor back with its DACL emptied
flushValues_Mut(sd) == <<getData([sd EXCEPT !.Dacl = <<>>])>>

\* flush, line 548: the value list handed to the modify
flushValues(sd) == <<>>

(***************************************************************************)
(* get_keycredentiallink                                                   *)
(***************************************************************************)
\* lines 584-587: one line per ACE; get_sid_info(...)[1] raises TypeError
\* when the lookup returned False
RECURSIVE ListAces(_, _)
ListAces(aces, i) ==
    IF i > Len(aces) THEN Ok(<<>>)
    ELSE LET SID == aces[i].Sid
             info == get_sid_info(SID)
         IN  IF ~info.found THEN Raise("TypeError")
             ELSE LET rest == ListAces(aces, i + 1)
                  IN  [exc |-> rest.exc,
                       val |-> IF rest.exc = "none"
                               THEN <<[SamAccountName |-> info.second, SID |-> SID]>> \o rest.val
                               ELSE None]

\* the lines of ListAces that were logged before it returned or raised
RECURSIVE ListedLines(_, _)
ListedLines(aces, i) ==
    IF i > Len(aces) \/ ~get_sid_info(aces[i].Sid).found THEN <<>>
    ELSE <<[SamAccountName |-> get_sid_info(aces[i].Sid).second, SID |-> aces[i].Sid]>>
         \o ListedLines(aces, i + 1)

\* what one call yields: ret is "None" (line 575), "pair" (line 594) or
\* "raise"; sd the descriptor returned; log what was logged
KclReturn(ret, exc, sd, listing, log) ==
    [ret |-> ret, exc |-> exc, sd |-> sd, listing |-> listing, log |-> log]

\* except_IndexError without the handler: the IndexError goes up
except_IndexError_Mut(listing, log) == KclReturn("raise", "IndexError", NoSd, listing, log)

\* lines 590-593
except_IndexError(listing, log) ==
    KclReturn("pair", "none", create_empty_sd, listing,
              log \o <<"Attribute msDS-KeyCredentialLink is empty">>)

\* lines 577-589, the try block on a present value
try_block(attr) ==
    LET kcl == DN_binary_KeyCredentialLink(attr.raw) IN
    IF kcl.exc # "none" THEN KclReturn("raise", kcl.exc, NoSd, <<>>, <<>>)
    ELSE LET sd == SR_SECURITY_DESCRIPTOR(attr) IN
         IF sd.exc # "none" THEN KclReturn("raise", sd.exc, NoSd, <<>>, <<>>)
         ELSE IF Len(sd.val.Dacl) > 0
              THEN LET log == <<"Accounts allowed to act on behalf of other identity:">>
                       lines == ListAces(sd.val.Dacl, 1)
                       listed == ListedLines(sd.val.Dacl, 1)
                   IN  IF lines.exc # "none"
                       THEN KclReturn("raise", lines.exc, sd.val, listed, log)
                       ELSE KclReturn("pair", "none", sd.val, listed, log)
              ELSE KclReturn("pair", "none", sd.val, <<>>,
                             <<"Attribute msDS-KeyCredentialLink is empty">>)

\* values is raw_attributes['msDS-KeyCredentialLink'] of the entry found
get_keycredentiallink(entryReturned, values) ==
    IF ~entryReturned
    THEN KclReturn("None", "none", NoSd, <<>>,
                   <<"Could not query target user properties">>)
    ELSE IF values = <<>> THEN except_IndexError(<<>>, <<>>)
    ELSE LET t == try_block(values[1]) IN
         IF t.exc = "IndexError" THEN except_IndexError(t.listing, t.log) ELSE t

(***************************************************************************)
(* Values the msDS-KeyCredentialLink attribute may hold.  The same bytes   *)
(* go to DN_binary_KeyCredentialLink (line 578) and then to                *)
(* SR_SECURITY_DESCRIPTOR (line 579); what the second makes of the bytes   *)
(* is left open, whatever the first made of them: a descriptor, an         *)
(* IndexError or another exception.                                        *)
(***************************************************************************)
MkRaw(utf8, nparts, hexok, binary) ==
    [utf8 |-> utf8, nparts |-> nparts, hexok |-> hexok, binary |-> binary]

\* version 2, no entry
RawEmptyV2 == MkRaw(TRUE, 4, TRUE, <<0, 2, 0, 0>>)
\* version 2, a KeySource entry and a KeyUsage entry
RawSourceUsage == MkRaw(TRUE, 4, TRUE, <<0, 2, 0, 0, 1, 0, 5, 0, 1, 0, 4, 1>>)
\* fewer than three fields
RawTwoFields == MkRaw(TRUE, 2, TRUE, <<>>)
\* field 2 is not hex text
RawBadHex == MkRaw(TRUE, 4, FALSE, <<>>)
\* the stream ends inside a record header
RawCutHeader == MkRaw(TRUE, 4, TRUE, <<0, 2, 0, 0, 1>>)

SdParses ==
    {[exc |-> "none", val |-> sd] : sd \in FetchedSds}
        \cup {[exc |-> e, val |-> NoSd] : e \in {"IndexError", "Error"}}

KclRaws == {RawEmptyV2, RawSourceUsage, RawTwoFields, RawBadHex, RawCutHeader}

KclValues == {[raw |-> r, sdparse |-> sp] : r \in KclRaws, sp \in SdParses}

KclAttrValues == {<<>>} \cup {<<v>> : v \in KclValues}

(***************************************************************************)
(* An invocation.                                                          *)
(*   pc        idle, lookupActor, lookupTarget, fetch, persist, refetch,   *)
(*             done                                                        *)
(*   lookups   the names get_user_info searched for, in order              *)
(*   fetches   what each search of get_keycredentiallink returned, and     *)
(*             (accepted) the modify the directory had last accepted when  *)
(*             it answered the search                                      *)
(*   fetchedSd the descriptor the first get_keycredentiallink returned     *)
(*   modified  the modify requests issued, in order                        *)
(*   exc       the exception main() caught, "none" if none                 *)
(*   prior     lastAccepted when the invocation started                    *)
(***************************************************************************)
Idle ==
    [pc |-> "idle", action |-> None, delegate_from |-> None, delegate_to |-> None,
     SID_delegate_from |-> None, DN_delegate_to |-> None, sd |-> NoSd, gotSd |-> FALSE,
     fetchedSd |-> NoSd, result |-> -1, log |-> <<>>, listing |-> <<>>, exc |-> "none",
     lookups |-> <<>>, fetches |-> <<>>, modified |-> <<>>, prior |-> <<>>]

InitDirectory ==
    /\ kclAttr \in KclAttrValues
    /\ rbcdAttr = <<>>
    /\ lastAccepted = <<>>
    /\ run = [p \in Procs |-> Idle]

IdleDirectory ==
    /\ kclAttr = <<>>
    /\ rbcdAttr = <<>>
    /\ lastAccepted = <<>>
    /\ run = [p \in Procs |-> Idle]

IdleKcl == kclInput = <<>> /\ kclResult = <<>>

IdleAcl == aclInput = <<>> /\ aclResult = <<>>

\* main(), lines 752-762: a new run of the program
Start(p, a, from, to) ==
    /\ run[p].pc \in {"idle", "done"}
    /\ run' = [run EXCEPT ![p] =
                 [Idle EXCEPT !.pc = IF a \in {"write", "remove"} THEN "lookupActor"
                                     ELSE "lookupTarget",
                              !.action = a,
                              !.delegate_from = IF a \in {"write", "remove"} THEN from ELSE None,
                              !.delegate_to = to,
                              !.prior = lastAccepted]]
    /\ UNCHANGED <<kclAttr, rbcdAttr, lastAccepted, kclVars, aclVars>>

\* write / remove, "Get escalate user sid"
LookupActor(p) ==
    /\ run[p].pc = "lookupActor"
    /\ LET result == get_user_info(run[p].delegate_from)
           r == [run[p] EXCEPT !.lookups = Append(@, run[p].delegate_from)]
       IN  run' = [run EXCEPT ![p] =
                     IF ~result.found
                     THEN [r EXCEPT !.log = @ \o <<"User not found in LDAP",
                                                   "User to escalate does not exist!">>,
                                    !.pc = "done"]
                     ELSE [r EXCEPT !.SID_delegate_from = result.second,
                                    !.pc = "lookupTarget"]]
    /\ UNCHANGED <<kclAttr, rbcdAttr, lastAccepted, kclVars, aclVars>>

\* read / write / remove / flush, "Get target computer DN"
LookupTarget(p) ==
    /\ run[p].pc = "lookupTarget"
    /\ LET result == get_user_info(run[p].delegate_to)
           r == [run[p] EXCEPT !.lookups = Append(@, run[p].delegate_to)]
       IN  run' = [run EXCEPT ![p] =
                     IF ~result.found
                     THEN [r EXCEPT !.log = @ \o <<"User not found in LDAP",
                                                   "Computer to modify does not exist!">>,
                                    !.pc = "done"]
                     ELSE [r EXCEPT !.DN_delegate_to = result.dn, !.pc = "fetch"]]
    /\ UNCHANGED <<kclAttr, rbcdAttr, lastAccepted, kclVars, aclVars>>

\* what get_keycredentiallink leaves in the invocation, whoever called it
AfterKcl(r, entryReturned, k) ==
    [r EXCEPT !.fetches = Append(@, [entry |-> entryReturned, values |-> kclAttr,
                                     accepted |-> lastAccepted]),
              !.log = @ \o k.log,
              !.listing = k.listing]

\* what is logged for the result code of a modify: write, lines 478-489
ReportWrite(code, r) ==
    IF code = 0 THEN <<"Delegation rights modified successfully!",
                       r.delegate_from \o " can now impersonate users on " \o r.delegate_to>>
    ELSE IF code = 50 THEN <<"Could not modify object, the server reports insufficient rights">>
    ELSE IF code = 19 THEN <<"Could not modify object, the server reports a constrained violation">>
    ELSE <<"The server returned an error">>

\* ReportRemove without the branch for result code 19
ReportRemove_Mut(code) ==
    IF code = 0 THEN <<"Delegation rights modified successfully!">>
    ELSE IF code = 50 THEN <<"Could not modify object, the server reports insufficient rights">>
    ELSE <<"The server returned an error">>

\* remove, lines 522-532
ReportRemove(code) ==
    IF code = 0 THEN <<"Delegation rights modified successfully!">>
    ELSE IF code = 50 THEN <<"Could not modify object, the server reports insufficient rights">>
    ELSE IF code = 19 THEN <<"Could not modify object, the server reports a constrained violation">>
    ELSE <<"The server returned an error">>

\* flush, lines 549-559
ReportFlush(code) ==
    IF code = 0 THEN <<"Delegation rights flushed successfully!">>
    ELSE IF code = 50 THEN <<"Could not modify object, the server reports insufficient rights">>
    ELSE IF code = 19 THEN <<"Could not modify object, the server reports a constrained violation">>
    ELSE <<"The server returned an error">>

\* ldap_session.modify(dn, {msDS-AllowedToActOnBehalfOfOtherIdentity:
\* [MODIFY_REPLACE, values]}) answered with code
Modify(p, r, values, code, report) ==
    /\ run' = [run EXCEPT ![p] =
                 [r EXCEPT !.modified = Append(@, [dn |-> r.DN_delegate_to, values |-> values]),
                           !.result = code,
                           !.log = @ \o report,
                           !.pc = "refetch"]]
    /\ rbcdAttr' = IF code = 0 THEN values ELSE rbcdAttr
    /\ lastAccepted' = IF code = 0
                       THEN <<[action |-> r.action, sid |-> r.SID_delegate_from,
                               dn |-> r.DN_delegate_to]>>
                       ELSE lastAccepted

\* Fetch in which read goes on to replace the delegation value with what
\* flush writes
Fetch_Mut(p) ==
    /\ run[p].pc = "fetch"
    /\ \E entryReturned \in BOOLEAN :
         LET k == get_keycredentiallink(entryReturned, kclAttr)
             r == AfterKcl(run[p], entryReturned, k)
         IN  IF run[p].action = "read" /\ k.ret = "pair"
             THEN \E code \in ResultCodes :
                    Modify(p, [r EXCEPT !.DN_delegate_to = run[p].DN_delegate_to],
                           flushValues(k.sd), code, ReportFlush(code))
             ELSE /\ run' = [run EXCEPT ![p] =
                       IF k.ret = "raise" THEN [r EXCEPT !.exc = k.exc, !.pc = "done"]
                       ELSE IF run[p].action = "read" THEN [r EXCEPT !.pc = "done"]
                       ELSE IF k.ret = "None" THEN [r EXCEPT !.exc = "TypeError", !.pc = "done"]
                       ELSE [r EXCEPT !.sd = k.sd, !.fetchedSd = k.sd, !.gotSd = TRUE,
                                      !.pc = "persist"]]
                  /\ UNCHANGED <<rbcdAttr, lastAccepted>>
    /\ UNCHANGED <<kclAttr, kclVars, aclVars>>

\* lines 448, 470, 515, 546: the first call of get_keycredentiallink.  read
\* drops what it returns; the others unpack it (TypeError on None)
Fetch(p) ==
    /\ run[p].pc = "fetch"
    /\ \E entryReturned \in BOOLEAN :
         LET k == get_keycredentiallink(entryReturned, kclAttr)
             r == AfterKcl(run[p], entryReturned, k)
         IN  run' = [run EXCEPT ![p] =
                       IF k.ret = "raise" THEN [r EXCEPT !.exc = k.exc, !.pc = "done"]
                       ELSE IF run[p].action = "read" THEN [r EXCEPT !.pc = "done"]
                       ELSE IF k.ret = "None" THEN [r EXCEPT !.exc = "TypeError", !.pc = "done"]
                       ELSE [r EXCEPT !.sd = k.sd, !.fetchedSd = k.sd, !.gotSd = TRUE,
                                      !.pc = "persist"]]
    /\ UNCHANGED <<kclAttr, rbcdAttr, lastAccepted, kclVars, aclVars>>

\* PersistWrite that edits the delegation value now stored, when there is
\* one, in place of the descriptor it fetched
PersistWrite_Mut(p) ==
    /\ run[p].pc = "persist" /\ run[p].action = "write"
    /\ LET base == IF rbcdAttr # <<>> THEN rbcdAttr[1].encoded ELSE run[p].sd
           sd == addActor(base, run[p].SID_delegate_from)
           r == [run[p] EXCEPT !.sd = sd]
       IN  IF run[p].SID_delegate_from \notin DaclSids(base.Dacl)
           THEN \E code \in ResultCodes :
                  Modify(p, r, <<getData(sd)>>, code, ReportWrite(code, r))
           ELSE /\ run' = [run EXCEPT ![p] =
                             [r EXCEPT !.log = @ \o <<r.delegate_from
                                                        \o " can already impersonate users on "
                                                        \o r.delegate_to,
                                                      "Not modifying the delegation rights.">>,
                                       !.pc = "refetch"]]
                /\ UNCHANGED <<rbcdAttr, lastAccepted>>
    /\ UNCHANGED <<kclAttr, kclVars, aclVars>>

\* write, lines 472-492
PersistWrite(p) ==
    /\ run[p].pc = "persist" /\ run[p].action = "write"
    /\ LET sd == addActor(run[p].sd, run[p].SID_delegate_from)
           r == [run[p] EXCEPT !.sd = sd]
       IN  IF run[p].SID_delegate_from \notin DaclSids(run[p].sd.Dacl)
           THEN \E code \in ResultCodes :
                  Modify(p, r, <<getData(sd)>>, code, ReportWrite(code, r))
           ELSE /\ run' = [run EXCEPT ![p] =
                             [r EXCEPT !.log = @ \o <<r.delegate_from
                                                        \o " can already impersonate users on "
                                                        \o r.delegate_to,
                                                      "Not modifying the delegation rights.">>,
                                       !.pc = "refetch"]]
                /\ UNCHANGED <<rbcdAttr, lastAccepted>>
    /\ UNCHANGED <<kclAttr, kclVars, aclVars>>

\* remove, lines 517-532
PersistRemove(p) ==
    /\ run[p].pc = "persist" /\ run[p].action = "remove"
    /\ LET sd == removeActor(run[p].sd, run[p].SID_delegate_from)
           r == [run[p] EXCEPT !.sd = sd]
       IN  \E code \in ResultCodes :
             Modify(p, r, <<getData(sd)>>, code, ReportRemove(code))
    /\ UNCHANGED <<kclAttr, kclVars, aclVars>>

\* flush, lines 548-559
PersistFlush(p) ==
    /\ run[p].pc = "persist" /\ run[p].action = "flush"
    /\ \E code \in ResultCodes :
         Modify(p, run[p], flushValues(run[p].sd), code, ReportFlush(code))
    /\ UNCHANGED <<kclAttr, kclVars, aclVars>>

\* Refetch that goes back to the modify when the directory had refused it
Refetch_Mut(p) ==
    /\ run[p].pc = "refetch"
    /\ \E entryReturned \in BOOLEAN :
         LET k == get_keycredentiallink(entryReturned, kclAttr)
             r == AfterKcl(run[p], entryReturned, k)
         IN  run' = [run EXCEPT ![p] =
                       IF k.ret = "raise" THEN [r EXCEPT !.exc = k.exc, !.pc = "done"]
                       ELSE IF run[p].result > 0 THEN [r EXCEPT !.pc = "persist"]
                       ELSE [r EXCEPT !.pc = "done"]]
    /\ UNCHANGED <<kclAttr, rbcdAttr, lastAccepted, kclVars, aclVars>>

\* lines 494, 534, 561: the second call of get_keycredentiallink, whose
\* result is dropped
Refetch(p) ==
    /\ run[p].pc = "refetch"
    /\ \E entryReturned \in BOOLEAN :
         LET k == get_keycredentiallink(entryReturned, kclAttr)
             r == AfterKcl(run[p], entryReturned, k)
         IN  run' = [run EXCEPT ![p] =
                       IF k.ret = "raise" THEN [r EXCEPT !.exc = k.exc, !.pc = "done"]
                       ELSE [r EXCEPT !.pc = "done"]]
    /\ UNCHANGED <<kclAttr, rbcdAttr, lastAccepted, kclVars, aclVars>>

(***************************************************************************)
(* Spec: invocations run one after the other, as one operator does.        *)
(***************************************************************************)
Sequential == {"p1"}

Init == InitDirectory /\ IdleKcl /\ IdleAcl

Next ==
    \/ \E p \in Sequential, a \in Actions, from \in ActorNames, to \in TargetNames :
         Start(p, a, from, to)
    \/ \E p \in Sequential : LookupActor(p)
    \/ \E p \in Sequential : LookupTarget(p)
    \/ \E p \in Sequential : Fetch(p)
    \/ \E p \in Sequential : PersistWrite(p)
    \/ \E p \in Sequential : PersistRemove(p)
    \/ \E p \in Sequential : PersistFlush(p)
    \/ \E p \in Sequential : Refetch(p)

Spec == Init /\ [][Next]_vars

(***************************************************************************)
(* SpecConc: two operators run write against the same target at the same   *)
(* time, their steps interleaved in any order.  Each step of an            *)
(* invocation is one request to the directory or the work between two      *)
(* requests; nothing in the program orders one operator's requests with    *)
(* the other's.                                                            *)
(***************************************************************************)
ConcActors == {"alice", "bob"}

ConcValues ==
    {v \in KclValues : /\ v.raw = RawEmptyV2
                       /\ v.sdparse.exc = "none"
                       /\ Len(v.sdparse.val.Dacl) <= 1}

InitConc ==
    /\ kclAttr \in {<<>>} \cup {<<v>> : v \in ConcValues}
    /\ rbcdAttr = <<>>
    /\ lastAccepted = <<>>
    /\ run = [p \in Procs |-> Idle]
    /\ IdleKcl /\ IdleAcl

NextConc ==
    \/ \E p \in Procs, from \in ConcActors : Start(p, "write", from, "target")
    \/ \E p \in Procs : LookupActor(p)
    \/ \E p \in Procs : LookupTarget(p)
    \/ \E p \in Procs : Fetch(p)
    \/ \E p \in Procs : PersistWrite(p)
    \/ \E p \in Procs : Refetch(p)

SpecConc == InitConc /\ [][NextConc]_vars

(***************************************************************************)
(* SpecAcl: the DACL edits of write and remove applied to a descriptor     *)
(* and a SID, once and twice over.                                         *)
(***************************************************************************)
AclInputs ==
    {[sd |-> MkSd(FetchedOwner, FetchedOwner, "SR", d), sid |-> x] :
        d \in SeqsUpTo(Aces, MaxDaclLen), x \in Sids}

InitAcl ==
    /\ aclInput \in {<<i>> : i \in AclInputs}
    /\ aclResult = <<>>
    /\ IdleDirectory /\ IdleKcl

ApplyAdd ==
    /\ aclResult = <<>>
    /\ aclResult' = <<[op |-> "add",
                       once |-> addActor(aclInput[1].sd, aclInput[1].sid),
                       twice |-> addActor(addActor(aclInput[1].sd, aclInput[1].sid),
                                          aclInput[1].sid)]>>
    /\ UNCHANGED <<aclInput, dirVars, kclVars>>

ApplyRemove ==
    /\ aclResult = <<>>
    /\ aclResult' = <<[op |-> "remove",
                       once |-> removeActor(aclInput[1].sd, aclInput[1].sid),
                       twice |-> removeActor(removeActor(aclInput[1].sd, aclInput[1].sid),
                                             aclInput[1].sid)]>>
    /\ UNCHANGED <<aclInput, dirVars, kclVars>>

NextAcl == ApplyAdd \/ ApplyRemove

SpecAcl == InitAcl /\ [][NextAcl]_vars

(***************************************************************************)
(* SpecKCL: the decoder applied to a byte stream.  The streams are every   *)
(* prefix of a version followed by sample records.                         *)
(***************************************************************************)
Record(entryType, value) == [entryType |-> entryType, value |-> value]

RecordSamples ==
    { Record(EntryKeyID, <<81, 81, 61, 61>>),
      Record(EntryKeyHash, <<9>>),
      Record(EntryKeyMaterial, <<7, 7, 7, 7, 7>>),
      Record(EntryKeyUsage, <<1>>),
      Record(EntryKeySource, <<0>>),
      Record(EntryCustomKeyInformation, <<1, 0>>),
      Record(EntryKeyCreationTime, <<15, 0, 0, 0, 0, 0, 0, 0>>),
      Record(10, <<1, 2>>) }

VersionSamples == {Version0, Version1, Version2}

PackLE(n, width) == [i \in 1..width |-> (n \div (256 ^ (i - 1))) % 256]

RECURSIVE PackRecords(_)
PackRecords(rs) ==
    IF rs = <<>> THEN <<>>
    ELSE PackLE(Len(Head(rs).value), 2) \o <<Head(rs).entryType>> \o Head(rs).value
         \o PackRecords(Tail(rs))

Prefixes(b) == {SubSeq(b, 1, n) : n \in 0..Len(b)}

KclStreams ==
    UNION {Prefixes(PackLE(v, 4) \o PackRecords(rs)) :
             v \in VersionSamples, rs \in SeqsUpTo(RecordSamples, MaxRecords)}

InitKcl ==
    /\ kclInput \in KclStreams
    /\ kclResult = <<>>
    /\ IdleDirectory /\ IdleAcl

\* DN_binary_KeyCredentialLink on a value whose field 2 is the hex of kclInput
DecodeKcl ==
    /\ kclResult = <<>>
    /\ kclResult' = <<DN_binary_KeyCredentialLink(MkRaw(TRUE, 4, TRUE, kclInput))>>
    /\ UNCHANGED <<kclInput, dirVars, aclVars>>

NextKcl == DecodeKcl

SpecKCL == InitKcl /\ [][NextKcl]_vars

(***************************************************************************)
(* SpecCKI: CustomKeyInformation applied to the value of a custom key      *)
(* information entry: every string of two byte values up to MaxCkiLen      *)
(* bytes, and every prefix of a 20-byte value.                             *)
(***************************************************************************)
CkiLong == <<1, 0, 2, 1, 1, 3, 0, 0, 0, 0, 0, 0, 0, 0, 0, 0, 9, 9, 9, 9>>

CkiInputs == SeqsUpTo({0, 1}, MaxCkiLen) \cup Prefixes(CkiLong)

InitCki ==
    /\ kclInput \in CkiInputs
    /\ kclResult = <<>>
    /\ IdleDirectory /\ IdleAcl

\* line 236
DecodeCki ==
    /\ kclResult = <<>>
    /\ kclResult' = <<CustomKeyInformation(kclInput)>>
    /\ UNCHANGED <<kclInput, dirVars, aclVars>>

NextCki == DecodeCki

SpecCKI == InitCki /\ [][NextCki]_vars

(***************************************************************************)
(* SpecGuid: Guid applied to the 16 bytes of a device identifier.  The     *)
(* first group's bytes are drawn from GuidBytes (its top byte stays below  *)
(* 128); the other twelve bytes are those of GuidSample.                   *)
(***************************************************************************)
GuidSample == <<51, 34, 17, 0, 85, 68, 119, 102, 136, 153, 170, 187, 204, 221, 238, 255>>

GuidBytes == {0, 17, 34, 51}

GuidInputs ==
    {<<a, b, c, d>> \o SubSeq(GuidSample, 5, 16) :
        a \in GuidBytes, b \in GuidBytes, c \in GuidBytes, d \in {0, 17}}

InitGuid ==
    /\ kclInput \in GuidInputs
    /\ kclResult = <<>>
    /\ IdleDirectory /\ IdleAcl

\* line 234
DecodeGuid ==
    /\ kclResult = <<>>
    /\ kclResult' = <<Guid(kclInput)>>
    /\ UNCHANGED <<kclInput, dirVars, aclVars>>

NextGuid == DecodeGuid

SpecGuid == InitGuid /\ [][NextGuid]_vars

(***************************************************************************)
(* Properties.                                                             *)
(***************************************************************************)
\* the invocation of p is past its mutation step with a descriptor in hand
Mutated(p) == run[p].gotSd /\ run[p].pc \in {"refetch", "done"}

\* the first fetch of p returned a value that decodes, as a key credential
\* link and as a descriptor
FetchedDecodable(p) ==
    /\ run[p].fetches # <<>>
    /\ run[p].fetches[1].entry
    /\ run[p].fetches[1].values # <<>>
    /\ DN_binary_KeyCredentialLink(run[p].fetches[1].values[1].raw).exc = "none"
    /\ run[p].fetches[1].values[1].sdparse.exc = "none"

\* the first fetch of p found the entry without the attribute
FetchedAbsent(p) ==
    /\ run[p].fetches # <<>>
    /\ run[p].fetches[1].entry
    /\ run[p].fetches[1].values = <<>>

\* C1: when the value computed after the mutation equals the value that
\* was fetched, no modify is issued in that invocation.  Stated for write
\* and remove on a fetched value that decodes: the descriptor after the
\* mutation is the one the value decodes to.  (flush computes the empty
\* list of values, which no fetched value equals.)
C1_NoModifyWhenUnchanged ==
    \A p \in Procs :
        (/\ Mutated(p)
         /\ FetchedDecodable(p)
         /\ run[p].action \in {"write", "remove"}
         /\ run[p].sd = run[p].fetches[1].values[1].sdparse.val)
        => run[p].modified = <<>>

\* a lookup of the invocation of p returned not-found
LookupNotFound(p) ==
    \E i \in 1..Len(run[p].lookups) : run[p].lookups[i] \notin AccountNames

\* C2: when the lookup of the target name, or of the actor name, returns
\* not-found, the invocation ends and never issues a modify.
C2_NotFoundNoModify ==
    \A p \in Procs :
        LookupNotFound(p) => run[p].pc = "done" /\ run[p].modified = <<>>

C2_Witness ==
    \E p \in Procs :
        /\ run[p].action = "write" /\ run[p].pc = "done"
        /\ run[p].lookups = <<"alice", "nosuch">>

\* C3: after a write for actor S on target T was accepted and nothing else
\* changed the directory, a second write for S and T fetches a descriptor
\* that holds S and issues no modify.
C3_SecondWriteIssuesNoModify ==
    \A p \in Procs :
        (/\ run[p].action = "write" /\ run[p].gotSd
         /\ run[p].prior = <<[action |-> "write", sid |-> run[p].SID_delegate_from,
                              dn |-> run[p].DN_delegate_to]>>)
        => /\ run[p].SID_delegate_from \in DaclSids(run[p].fetchedSd.Dacl)
           /\ run[p].modified = <<>>

\* number of ACEs of a DACL that carry the SID
CountSid(dacl, sid) == Cardinality({i \in 1..Len(dacl) : dacl[i].Sid = sid})

\* C4: addActor appends exactly one ACE for s at the end when no ACE of the
\* DACL has SID s, and changes nothing otherwise; doing it twice gives what
\* doing it once gives, and it never adds a second ACE for s.
C4_AddActor ==
    (aclResult # <<>> /\ aclResult[1].op = "add") =>
        LET sd == aclInput[1].sd
            s == aclInput[1].sid
            out == aclResult[1].once
            n == Len(sd.Dacl)
        IN  /\ CountSid(sd.Dacl, s) = 0 =>
                 /\ Len(out.Dacl) = n + 1
                 /\ SubSeq(out.Dacl, 1, n) = sd.Dacl
                 /\ out.Dacl[n + 1].Sid = s
                 /\ CountSid(out.Dacl, s) = 1
            /\ CountSid(sd.Dacl, s) > 0 => out.Dacl = sd.Dacl
            /\ aclResult[1].twice = out
            /\ out.OwnerSid = sd.OwnerSid /\ out.GroupSid = sd.GroupSid
            /\ out.Control = sd.Control

C4_Witness ==
    /\ aclResult # <<>> /\ aclResult[1].op = "add"
    /\ Len(aclInput[1].sd.Dacl) = 2
    /\ CountSid(aclInput[1].sd.Dacl, aclInput[1].sid) = 0
    /\ Len(aclResult[1].twice.Dacl) = 3

\* C5: removeActor yields exactly the ACEs whose SID differs from s, in
\* their original order: the j-th ACE of the result is the j-th ACE of the
\* input that does not carry s.
C5_RemoveActor ==
    (aclResult # <<>> /\ aclResult[1].op = "remove") =>
        LET d == aclInput[1].sd.Dacl
            s == aclInput[1].sid
            r == aclResult[1].once.Dacl
            keep == {i \in 1..Len(d) : d[i].Sid # s}
        IN  /\ Len(r) = Cardinality(keep)
            /\ \A k \in keep : r[Cardinality({i \in keep : i <= k})] = d[k]

C5_Witness ==
    /\ aclResult # <<>> /\ aclResult[1].op = "remove"
    /\ LET d == aclInput[1].sd.Dacl
           s == aclInput[1].sid
       IN  /\ Len(d) = 4
           /\ d[1].Sid # s /\ d[2].Sid = s /\ d[3].Sid # s /\ d[4].Sid = s
           /\ d[1] # d[3]
           /\ aclResult[1].once.Dacl = <<d[1], d[3]>>

C7_AbsentAttributeThenAdd ==
    \A p \in Procs :
        (run[p].action = "write" /\ FetchedAbsent(p)) =>
            /\ run[p].gotSd /\ run[p].fetchedSd.Dacl = <<>>
            /\ run[p].pc \in {"persist", "refetch", "done"}
            /\ run[p].pc = "persist" => run[p].modified = <<>>
            /\ run[p].pc \in {"refetch", "done"} =>
                 /\ Len(run[p].modified) = 1
                 /\ Len(run[p].modified[1].values) = 1
                 /\ Len(run[p].modified[1].values[1].encoded.Dacl) = 1
                 /\ run[p].modified[1].values[1].encoded.Dacl[1].Sid
                        = AccountSid[run[p].delegate_from]

C7_Witness ==
    \E p \in Procs :
        /\ run[p].action = "write" /\ FetchedAbsent(p)
        /\ run[p].pc = "done" /\ run[p].result = 0
        /\ rbcdAttr = <<getData(MkSd(DefaultOwner, None, "SR",
                                     <<[Sid |-> SidAlice, AceType |-> "ALLOWED"]>>))>>

\* C8 as stated: an invocation fetches the attribute at most once and
\* issues at most one modify.
C8_OneFetchOneModify ==
    \A p \in Procs : Len(run[p].fetches) <= 1 /\ Len(run[p].modified) <= 1

\* C8 amended: an invocation issues at most one modify; read fetches the
\* attribute at most once; write, remove and flush fetch it at most twice,
\* once before the mutation step and once more after it.
C8_TwoFetchesOneModify ==
    \A p \in Procs :
        /\ Len(run[p].modified) <= 1
        /\ Len(run[p].fetches) <= 2
        /\ run[p].action = "read" => Len(run[p].fetches) <= 1
        /\ Len(run[p].fetches) = 2 => run[p].pc = "done"
        /\ run[p].pc \in {"persist", "refetch"} => Len(run[p].fetches) = 1

C8_Witness ==
    \E p \in Procs :
        /\ run[p].action = "remove" /\ run[p].pc = "done"
        /\ Len(run[p].fetches) = 2 /\ Len(run[p].modified) = 1 /\ run[p].result = 50

\* C9: listing the actors of a fetched DACL never aborts on a name lookup:
\* every ACE gets its line, in stored order, also when its SID resolves to
\* no name, and the invocation goes on.
C9_ListingNeverAborts ==
    \A p \in Procs :
        (FetchedDecodable(p) /\ Len(run[p].fetches) = 1) =>
            LET dacl == run[p].fetches[1].values[1].sdparse.val.Dacl
            IN  /\ Len(run[p].listing) = Len(dacl)
                /\ \A i \in 1..Len(dacl) : run[p].listing[i].SID = dacl[i].Sid
                /\ run[p].exc = "none"

\* the stream ends inside a record: 1 or 2 header bytes are left at pos, or
\* the header at pos declares more value bytes than are left
RECURSIVE EndsInsideRecord(_, _)
EndsInsideRecord(b, pos) ==
    LET left == Len(b) - pos + 1 IN
    IF left <= 0 THEN FALSE
    ELSE IF left < 3 THEN TRUE
    ELSE IF b[pos] + 256 * b[pos + 1] > left - 3 THEN TRUE
    ELSE EndsInsideRecord(b, pos + 3 + b[pos] + 256 * b[pos + 1])

\* C10: a stream that ends inside a record after the 4-byte version never
\* decodes into a KeyCredential: the decoder fails on it.
C10_TruncatedStreamFails ==
    (kclResult # <<>> /\ Len(kclInput) >= 4 /\ EndsInsideRecord(kclInput, 5))
        => kclResult[1].exc # "none"

\* C11: the custom key information decoder fails exactly on inputs shorter
\* than 2 bytes; on any longer input it succeeds, and each optional field
\* is present exactly when a byte was left in the stream at its step
\* (volumeType at byte 3, supportsNotification 4, fekKeyVersion 5,
\* strength 6, reserved from 7, extendedInfo from 17).
C11_CustomKeyInfoDecodes ==
    kclResult # <<>> =>
        LET n == Len(kclInput)
            r == kclResult[1]
        IN  /\ (r.exc # "none") <=> (n < 2)
            /\ r.exc = "none" =>
                 /\ (r.val.VolumeType # Absent) <=> (n >= 3)
                 /\ (r.val.SupportsNotification # Absent) <=> (n >= 4)
                 /\ (r.val.FekKeyVersion # Absent) <=> (n >= 5)
                 /\ (r.val.Strength # Absent) <=> (n >= 6)
                 /\ (r.val.Reserved # Absent) <=> (n >= 7)
                 /\ (r.val.EncodedExtendedCKI # Absent) <=> (n >= 17)

\* C12: Guid on the bytes 33 22 11 00 55 44 77 66 88 99 aa bb cc dd ee ff
\* returns exactly "00112233-4455-6677-8899-aabbccddeeff": the first three
\* groups read little-endian, the last two in stream order, and every group
\* at full width with its leading zeros.
GuidSampleText ==
    <<"0", "0", "1", "1", "2", "2", "3", "3", "-", "4", "4", "5", "5", "-",
      "6", "6", "7", "7", "-", "8", "8", "9", "9", "-",
      "a", "a", "b", "b", "c", "c", "d", "d", "e", "e", "f", "f">>

C12_GuidToString ==
    (kclResult # <<>> /\ kclInput = GuidSample) =>
        /\ kclResult[1].exc = "none"
        /\ kclResult[1].val = GuidSampleText

\* the first fetch of p found the entry with a value that decodes as a
\* security descriptor whose ACEs all resolve to an account
FetchedDescriptor(p) ==
    /\ run[p].fetches # <<>>
    /\ run[p].fetches[1].entry
    /\ run[p].fetches[1].values # <<>>
    /\ run[p].fetches[1].values[1].sdparse.exc = "none"
    /\ ListAces(run[p].fetches[1].values[1].sdparse.val.Dacl, 1).exc = "none"

\* C13: the key credential codec takes no part in the write path: a write,
\* remove or flush whose fetch found a value that decodes as a security
\* descriptor gets a descriptor from the fetch and goes on to its modify,
\* whether or not the same bytes decode as a key credential blob.
C13_KclCodecNotOnWritePath ==
    \A p \in Procs :
        (run[p].action \in {"write", "remove", "flush"} /\ FetchedDescriptor(p)) =>
            /\ run[p].gotSd
            /\ run[p].pc = "done" => run[p].modified # <<>>

\* the messages an invocation logs for the result of its modify
SuccessMessages ==
    {"Delegation rights modified successfully!", "Delegation rights flushed successfully!"}

ReasonFor(code) ==
    IF code = 50 THEN "Could not modify object, the server reports insufficient rights"
    ELSE IF code = 19 THEN "Could not modify object, the server reports a constrained violation"
    ELSE "The server returned an error"

ReasonMessages == {ReasonFor(code) : code \in ResultCodes}

IsReason(line) == line \in ReasonMessages
IsSuccess(line) == line \in SuccessMessages

\* C14: when the directory answers the modify with a non-zero result code,
\* the invocation logs exactly one failure reason, the one fixed by the
\* code (insufficient rights for 50, constraint violation for 19, the
\* generic one otherwise), logs no success, and has issued one modify only.
C14_RejectedModifyReported ==
    \A p \in Procs :
        run[p].result > 0 =>
            /\ SelectSeq(run[p].log, IsReason) = <<ReasonFor(run[p].result)>>
            /\ SelectSeq(run[p].log, IsSuccess) = <<>>
            /\ Len(run[p].modified) = 1

\* a remove whose modify was refused with code 19 has run to its end
C14_Witness ==
    \E p \in Procs :
        /\ run[p].action = "remove" /\ run[p].pc = "done"
        /\ run[p].result = 19
        /\ Len(run[p].fetches) = 2

\* p's write had its modify accepted, having fetched when the directory
\* had accepted no modify yet
WroteUnaware(p) ==
    /\ run[p].action = "write"
    /\ run[p].result = 0
    /\ run[p].fetches[1].accepted = <<>>

\* C15: write is an unguarded read-modify-write.  When two writes for
\* distinct actors A and B on one target both fetch before either persists
\* and both modifies are accepted, each persists the descriptor it fetched
\* plus its own actor, both report success, and the delegation value left
\* in the directory lists only one of A and B.
C15_LostUpdate ==
    \A p, q \in Procs :
        (/\ p # q
         /\ WroteUnaware(p) /\ WroteUnaware(q)
         /\ run[p].SID_delegate_from # run[q].SID_delegate_from
         /\ run[p].DN_delegate_to = run[q].DN_delegate_to) =>
            /\ run[p].modified =
                 <<[dn |-> run[p].DN_delegate_to,
                    values |-> <<getData(addActor(run[p].fetchedSd,
                                                  run[p].SID_delegate_from))>>]>>
            /\ "Delegation rights modified successfully!" \in
                 {run[p].log[i] : i \in 1..Len(run[p].log)}
            /\ rbcdAttr # <<>>
            /\ (run[p].SID_delegate_from \in DaclSids(rbcdAttr[1].encoded.Dacl))
                 # (run[q].SID_delegate_from \in DaclSids(rbcdAttr[1].encoded.Dacl))

\* both writes have ended, alice's and bob's, each accepted and each having
\* fetched before the other persisted; only bob is left in the list
C15_Witness ==
    /\ WroteUnaware("p1") /\ WroteUnaware("p2")
    /\ run["p1"].pc = "done" /\ run["p2"].pc = "done"
    /\ run["p1"].SID_delegate_from = SidAlice
    /\ run["p2"].SID_delegate_from = SidBob
    /\ rbcdAttr # <<>>
    /\ DaclSids(rbcdAttr[1].encoded.Dacl) \cap {SidAlice, SidBob} = {SidBob}

\* the rows of the stream handed to the decoder, <<>> when it cannot be cut
\* into rows
StreamRows ==
    IF Len(kclInput) >= 4 /\ ReadEntries(kclInput, 5).exc = "none"
    THEN ReadEntries(kclInput, 5).val
    ELSE <<>>

HasSourceRow ==
    \E i \in 1..Len(StreamRows) :
        StreamRows[i].entryType = EntryKeySource /\ StreamRows[i].value # <<>>

HasTimestampRow ==
    \E i \in 1..Len(StreamRows) :
        StreamRows[i].entryType \in {EntryKeyApproximateLastLogonTimeStamp, EntryKeyCreationTime}

\* C16: the source entry is decoded before any timestamp entry: whatever
\* the order of the records of a stream that holds a source entry and a
\* timestamp entry, the conversion of the timestamp finds the source value
\* defined (it does not fail for want of one).
C16_SourceBeforeTimestamp ==
    (kclResult # <<>> /\ HasSourceRow /\ HasTimestampRow) =>
        kclResult[1].exc # "AttributeError"

\* C17: read never changes the directory: no step of a read invocation
\* issues a modify, and both attributes of the target hold after the step
\* what they held before it.
C17_ReadChangesNothing ==
    [][\A p \in Procs :
         (run[p].action = "read" /\ run[p].pc \notin {"idle", "done"}) =>
             /\ run'[p].modified = <<>>
             /\ kclAttr' = kclAttr
             /\ rbcdAttr' = rbcdAttr
             /\ lastAccepted' = lastAccepted]_vars

\* a read has listed a fetched descriptor and ended, with the delegation
\* value an earlier invocation stored still in place
C17_Witness ==
    \E p \in Procs :
        /\ run[p].action = "read" /\ run[p].pc = "done"
        /\ FetchedDecodable(p) /\ run[p].listing # <<>>
        /\ run[p].modified = <<>>
        /\ rbcdAttr # <<>>
        /\ lastAccepted = run[p].prior

====
